---- MODULE Spec2Model ----
(***************************************************************************)
(* Model of the txpool read endpoints (crates/rpc/rpc/src/txpool.rs) and   *)
(* of the Optimism transaction response helpers                            *)
(* (crates/optimism/rpc/src/eth/transaction.rs).                           *)
(*                                                                         *)
(* Three specifications share the module:                                  *)
(*   Spec           the four txpool handlers served concurrently with      *)
(*                  mutations of the pool;                                 *)
(*   SpecAggregate  the four txpool handlers as functions of an arbitrary  *)
(*                  snapshot handed out by a TransactionPool               *)
(*                  implementation;                                        *)
(*   SpecOp         build_op_tx_meta and OpTxBuilder::fill on arbitrary    *)
(*                  inputs.                                                *)
(***************************************************************************)
EXTENDS Integers, Sequences, FiniteSets

VARIABLES pool, req, snapshot, response, opIn, opOut

vars == <<pool, req, snapshot, response, opIn, opOut>>

(***************************************************************************)
(* Option<T>, Result<T, E> and BTreeMap<K, V>                              *)
(***************************************************************************)
None == <<>>

Some(v) == <<v>>

Ok(v) == [ok |-> TRUE, val |-> v]

Err(e) == [ok |-> FALSE, err |-> e]

\* BTreeMap::default(): the map with no key.
EmptyMap == <<>>

\* BTreeMap::insert: the value of an existing key is replaced.
MapInsert(m, k, v) == [x \in (DOMAIN m) \cup {k} |-> IF x = k THEN v ELSE m[x]]

\* BTreeMap::entry(k).or_default(): the value under k, the default when absent.
EntryOrDefault(m, k) == IF k \in DOMAIN m THEN m[k] ELSE EmptyMap

(***************************************************************************)
(* Pooled transactions.  sender .. max_fee_per_gas are the projections of  *)
(* PoolTransaction the handlers read.                                      *)
(***************************************************************************)
AddrA == "0xA"

AddrB == "0xB"

AddrC == "0xC"

Addresses == {AddrA, AddrB, AddrC}

MkTx(hash, sender, nonce, to, value, gas_limit, max_fee_per_gas) ==
    [hash |-> hash, sender |-> sender, nonce |-> nonce, to |-> to, value |-> value,
     gas_limit |-> gas_limit, max_fee_per_gas |-> max_fee_per_gas]

TxA3 == MkTx("h1", AddrA, 3, Some(AddrB), 1, 21000, 7)

\* Same sender and nonce as TxA3, another transaction (a contract creation).
TxA3x == MkTx("h2", AddrA, 3, None, 0, 53000, 9)

TxA10 == MkTx("h3", AddrA, 10, Some(AddrC), 2, 21000, 7)

TxB3 == MkTx("h4", AddrB, 3, Some(AddrA), 4, 30000, 8)

\* What any TransactionPool implementation may hand out.
AnyTxs == {TxA3, TxA3x, TxA10, TxB3}

\* The transactions the pool of Spec admits: one per (sender, nonce).
PoolTxs == {TxA3, TxA10, TxB3}

Digits == <<"0", "1", "2", "3", "4", "5", "6", "7", "8", "9">>

\* u64::to_string: the decimal digits, most significant first, no leading zero.
RECURSIVE to_string(_)
to_string(n) ==
    IF n < 10 THEN <<Digits[n + 1]>>
    ELSE Append(to_string(n \div 10), Digits[(n % 10) + 1])

\* from_recovered::<TxB>(tx.to_recovered_transaction()): the formatted
\* transaction of the response, built with TransactionInfo::default().
from_recovered(tx) ==
    [hash |-> tx.hash, from |-> tx.sender, nonce |-> tx.nonce, to |-> tx.to,
     value |-> tx.value, gas |-> tx.gas_limit, max_fee_per_gas |-> Some(tx.max_fee_per_gas),
     block_hash |-> None, block_number |-> None, transaction_index |-> None]

\* TxpoolInspectSummary of a transaction.
InspectSummary(tx) ==
    [to |-> tx.to, value |-> tx.value, gas |-> tx.gas_limit, gas_price |-> tx.max_fee_per_gas]

(***************************************************************************)
(* The handlers as functions of the snapshot all_transactions() returned   *)
(***************************************************************************)
\* An insert that keeps the entry a key already has (or_insert in place of insert).
content_insert_keep_first(tx, content) ==
    LET entry == EntryOrDefault(content, tx.sender)
        key == to_string(tx.nonce)
    IN MapInsert(content, tx.sender,
                 IF key \in DOMAIN entry THEN entry
                 ELSE MapInsert(entry, key, from_recovered(tx)))

\* TxPoolApi::content::insert
content_insert(tx, content) ==
    MapInsert(content, tx.sender,
              MapInsert(EntryOrDefault(content, tx.sender), to_string(tx.nonce),
                        from_recovered(tx)))

\* txpool_inspect::insert
inspect_insert(tx, inspect) ==
    MapInsert(inspect, tx.sender,
              MapInsert(EntryOrDefault(inspect, tx.sender), to_string(tx.nonce),
                        InspectSummary(tx)))

\* for tx in txs { insert(&tx.transaction, &mut acc) }, in the order of txs
RECURSIVE content_fold(_, _)
content_fold(txs, acc) ==
    IF txs = <<>> THEN acc
    ELSE content_fold(Tail(txs), content_insert(Head(txs), acc))

RECURSIVE inspect_fold(_, _)
inspect_fold(txs, acc) ==
    IF txs = <<>> THEN acc
    ELSE inspect_fold(Tail(txs), inspect_insert(Head(txs), acc))

\* A content whose second loop inserts the queued transactions into content.pending.
content_queued_into_pending(all) ==
    [pending |-> content_fold(all.queued, content_fold(all.pending, EmptyMap)),
     queued |-> EmptyMap]

\* TxPoolApi::content, after all_transactions() returned `all`
content(all) ==
    [pending |-> content_fold(all.pending, EmptyMap),
     queued |-> content_fold(all.queued, EmptyMap)]

\* A txpool_status with the two counts exchanged.
txpool_status_swapped(all) == Ok([pending |-> Len(all.queued), queued |-> Len(all.pending)])

\* txpool_status, after all_transactions() returned `all`
txpool_status(all) == Ok([pending |-> Len(all.pending), queued |-> Len(all.queued)])

\* txpool_inspect, after all_transactions() returned `all`
txpool_inspect(all) ==
    Ok([pending |-> inspect_fold(all.pending, EmptyMap),
        queued |-> inspect_fold(all.queued, EmptyMap)])

\* TxpoolContent::remove_from(&from)
remove_from(c, from) ==
    [pending |-> IF from \in DOMAIN c.pending THEN c.pending[from] ELSE EmptyMap,
     queued |-> IF from \in DOMAIN c.queued THEN c.queued[from] ELSE EmptyMap]

\* A txpool_content_from that filters pending only and returns all of queued's
\* nonce maps merged.
txpool_content_from_pending_only(all, from) ==
    LET c == content(all)
    IN Ok([pending |-> remove_from(c, from).pending,
           queued |-> IF DOMAIN c.queued = {} THEN EmptyMap
                      ELSE c.queued[CHOOSE a \in DOMAIN c.queued : TRUE]])

\* txpool_content_from
txpool_content_from(all, from) == Ok(remove_from(content(all), from))

\* txpool_content
txpool_content(all) == Ok(content(all))

(***************************************************************************)
(* SpecAggregate: one request served from an arbitrary snapshot            *)
(***************************************************************************)
MaxLen == 3

SeqsUpTo(S, n) == UNION {[1..k -> S] : k \in 0..n}

Snapshots == [pending : SeqsUpTo(AnyTxs, MaxLen), queued : SeqsUpTo(AnyTxs, MaxLen)]

NoResponse == [method |-> "none"]

IdlePool == [pending |-> {}, queued |-> {}]

IdleOpIn == [tx |-> None]

IdleOpOut == [step |-> "none"]

InitAggregate ==
    /\ snapshot \in Snapshots
    /\ response = NoResponse
    /\ pool = IdlePool
    /\ req = <<>>
    /\ opIn = IdleOpIn
    /\ opOut = IdleOpOut

ServeStatus ==
    /\ response = NoResponse
    /\ response' = [method |-> "txpool_status", ret |-> txpool_status(snapshot)]
    /\ UNCHANGED <<pool, req, snapshot, opIn, opOut>>

ServeInspect ==
    /\ response = NoResponse
    /\ response' = [method |-> "txpool_inspect", ret |-> txpool_inspect(snapshot)]
    /\ UNCHANGED <<pool, req, snapshot, opIn, opOut>>

ServeContent ==
    /\ response = NoResponse
    /\ response' = [method |-> "txpool_content", ret |-> txpool_content(snapshot)]
    /\ UNCHANGED <<pool, req, snapshot, opIn, opOut>>

ServeContentFrom ==
    /\ response = NoResponse
    /\ \E from \in Addresses :
          response' = [method |-> "txpool_contentFrom", from |-> from,
                       ret |-> txpool_content_from(snapshot, from)]
    /\ UNCHANGED <<pool, req, snapshot, opIn, opOut>>

NextAggregate == ServeStatus \/ ServeInspect \/ ServeContent \/ ServeContentFrom

SpecAggregate == InitAggregate /\ [][NextAggregate]_vars

(***************************************************************************)
(* Properties of the handlers as functions of one snapshot                 *)
(***************************************************************************)
Partitions == {"pending", "queued"}

Other(p) == IF p = "pending" THEN "queued" ELSE "pending"

SameKey(t, u) == t.sender = u.sender /\ t.nonce = u.nonce

\* At most one transaction per (sender, nonce) in the sequence.
UniqueKeys(txs) == \A i, j \in DOMAIN txs : SameKey(txs[i], txs[j]) => i = j

Elems(txs) == {txs[i] : i \in DOMAIN txs}

DisjointPartitions(all) == Elems(all.pending) \cap Elems(all.queued) = {}

DigitValue(c) == CHOOSE d \in 0..9 : Digits[d + 1] = c

RECURSIVE DecimalValue(_)
DecimalValue(k) ==
    IF k = <<>> THEN 0
    ELSE 10 * DecimalValue(SubSeq(k, 1, Len(k) - 1)) + DigitValue(k[Len(k)])

\* k is the decimal numeral of n: digits only, no leading zero, value n.
IsDecimalOf(k, n) ==
    /\ Len(k) >= 1
    /\ Len(k) > 1 => k[1] # "0"
    /\ DecimalValue(k) = n

\* The <<sender, nonce key, value>> entries of a sender -> nonce key -> value map.
Entries(m) == UNION {{<<a, k, m[a][k]>> : k \in DOMAIN m[a]} : a \in DOMAIN m}

\* The index of the last transaction of txs with the key of txs[i].
LastWithKey(txs, i) ==
    CHOOSE j \in DOMAIN txs :
        /\ SameKey(txs[j], txs[i])
        /\ \A l \in DOMAIN txs : SameKey(txs[l], txs[i]) => l <= j

\* C1: txpool_status succeeds with pending = |s.pending| and queued = |s.queued|,
\* the numbers of elements of the two sequences of the one snapshot it was given,
\* whatever their lengths (empty included).
C1_StatusCounts ==
    response.method = "txpool_status" =>
        /\ response.ret.ok
        /\ response.ret.val.pending = Cardinality(DOMAIN snapshot.pending)
        /\ response.ret.val.queued = Cardinality(DOMAIN snapshot.queued)

C1_Witness ==
    /\ response.method = "txpool_status"
    /\ Len(snapshot.pending) = 1
    /\ Len(snapshot.queued) = 3
    /\ response.ret.val = [pending |-> 1, queued |-> 3]

\* C2: when the partitions of the snapshot are disjoint and each has unique
\* (sender, nonce) keys, every transaction t of a partition is found in content
\* under that partition at [sender(t)][decimal(nonce(t))] as the formatted t and
\* nowhere under the other partition, and every entry of content is the formatted
\* form of a transaction of the snapshot's same partition under its own key.
C2_ContentGrouping ==
    (/\ response.method = "txpool_content"
     /\ DisjointPartitions(snapshot)
     /\ UniqueKeys(snapshot.pending)
     /\ UniqueKeys(snapshot.queued)) =>
        /\ response.ret.ok
        /\ \A p \in Partitions :
              LET txs == snapshot[p]
                  here == response.ret.val[p]
                  there == response.ret.val[Other(p)]
              IN /\ \A i \in DOMAIN txs :
                        /\ \E e \in Entries(here) :
                              /\ e[1] = txs[i].sender
                              /\ IsDecimalOf(e[2], txs[i].nonce)
                              /\ e[3] = from_recovered(txs[i])
                        /\ \A e \in Entries(there) : e[3] # from_recovered(txs[i])
                 /\ \A e \in Entries(here) :
                        \E i \in DOMAIN txs :
                              /\ e[1] = txs[i].sender
                              /\ IsDecimalOf(e[2], txs[i].nonce)
                              /\ e[3] = from_recovered(txs[i])

\* A sender with nonce 3 pending and nonce 10 queued, and a second sender pending.
C2_Witness ==
    /\ response.method = "txpool_content"
    /\ snapshot.pending = <<TxA3, TxB3>>
    /\ snapshot.queued = <<TxA10>>
    /\ DOMAIN response.ret.val.pending = {AddrA, AddrB}
    /\ response.ret.val.pending[AddrA][<<"3">>] = from_recovered(TxA3)
    /\ DOMAIN response.ret.val.queued = {AddrA}
    /\ DOMAIN response.ret.val.queued[AddrA] = {<<"1", "0">>}

\* C3: txpool_content_from(a) holds, in each partition, exactly the entries that
\* content of the same snapshot holds under the sender key a; the partition is
\* empty when a has no entry there, and no entry of another sender is included.
C3_ContentFromFilters ==
    response.method = "txpool_contentFrom" =>
        /\ response.ret.ok
        /\ \A p \in Partitions :
              {<<response.from, k, response.ret.val[p][k]>> : k \in DOMAIN response.ret.val[p]}
                  = {e \in Entries(content(snapshot)[p]) : e[1] = response.from}

\* The sender has an entry pending and none queued; another sender is in both.
C3_Witness ==
    /\ response.method = "txpool_contentFrom"
    /\ response.from = AddrA
    /\ snapshot.pending = <<TxA3, TxB3, TxA10>>
    /\ snapshot.queued = <<TxB3>>
    /\ DOMAIN response.ret.val.pending = {<<"3">>, <<"1", "0">>}
    /\ response.ret.val.queued = EmptyMap

\* C9: whatever the snapshot (key uniqueness violated or not), inspect and content
\* hold for every transaction's (sender, decimal nonce) key exactly the entry made
\* from the last transaction of the partition's sequence with that key, and no
\* entry of any other key; status counts every element of the sequences.
C9_LastWriteWins ==
    /\ response.method \in {"txpool_content", "txpool_inspect"} =>
          \A p \in Partitions :
              LET txs == snapshot[p]
                  m == response.ret.val[p]
                  View(t) == IF response.method = "txpool_content"
                             THEN from_recovered(t) ELSE InspectSummary(t)
              IN /\ \A i \in DOMAIN txs :
                        /\ txs[i].sender \in DOMAIN m
                        /\ Cardinality({k \in DOMAIN m[txs[i].sender] :
                                           IsDecimalOf(k, txs[i].nonce)}) = 1
                        /\ \A k \in DOMAIN m[txs[i].sender] :
                              IsDecimalOf(k, txs[i].nonce) =>
                                  m[txs[i].sender][k] = View(txs[LastWithKey(txs, i)])
                 /\ \A e \in Entries(m) :
                        \E i \in DOMAIN txs :
                            e[1] = txs[i].sender /\ IsDecimalOf(e[2], txs[i].nonce)
    /\ response.method = "txpool_status" =>
          /\ response.ret.val.pending = Len(snapshot.pending)
          /\ response.ret.val.queued = Len(snapshot.queued)

\* Two transactions of one key in pending, the later one kept, another key between.
C9_Witness ==
    /\ response.method = "txpool_content"
    /\ snapshot.pending = <<TxA3, TxB3, TxA3x>>
    /\ ~UniqueKeys(snapshot.pending)
    /\ DOMAIN response.ret.val.pending[AddrA] = {<<"3">>}
    /\ response.ret.val.pending[AddrA][<<"3">>] = from_recovered(TxA3x)
    /\ response.ret.val.pending[AddrB][<<"3">>] = from_recovered(TxB3)

(***************************************************************************)
(* Optimism: L1 fee meta and the rollup transaction response               *)
(***************************************************************************)
\* U256 and u128 values are the sets of the positions of their one bits
\* (bit 0 the least significant), so that the widths are the real ones.
U128Bits == 128

U128_MAX == 0..(U128Bits - 1)

\* A conversion that wraps modulo 2^128 (the low 128 bits).
wrapping_to_u128(v) == {i \in v : i < U128Bits}

\* Uint::saturating_to::<u128>: the value when it fits 128 bits, u128::MAX otherwise.
saturating_to_u128(v) == IF \E i \in v : i >= U128Bits THEN U128_MAX ELSE v

\* 0, 1, 2^127, 2^128 - 1, 2^128, 2^128 + 1, 2^200 + 2^5, 2^256 - 1
U256Samples == {{}, {0}, {127}, 0..127, {128}, {0, 128}, {5, 200}, 0..255}

DerivationResults == {Err("derivation failed")} \cup {Ok(v) : v \in U256Samples}

L1BlockFeeError == "OpEthApiError::L1BlockFeeError"

L1BlockGasError == "OpEthApiError::L1BlockGasError"

\* Signed transactions: two that are no deposits and two deposits.
OpTx(hash, tx_type, deposit) == [hash |-> hash, tx_type |-> tx_type, deposit |-> deposit]

OpTxs ==
    {OpTx("t1", "legacy", None),
     OpTx("t2", "eip1559", None),
     OpTx("t3", "deposit",
          Some([source_hash |-> "s3", mint |-> None, is_system_transaction |-> TRUE])),
     OpTx("t4", "deposit",
          Some([source_hash |-> "s4", mint |-> Some(5), is_system_transaction |-> FALSE]))}

\* TransactionSigned::is_deposit
is_deposit(tx) == tx.tx_type = "deposit"

\* TransactionSigned::is_system_transaction: false for what is no deposit
is_system_transaction(tx) ==
    IF is_deposit(tx) THEN tx.deposit[1].is_system_transaction ELSE FALSE

\* TransactionSigned::source_hash
source_hash(tx) == IF is_deposit(tx) THEN Some(tx.deposit[1].source_hash) ELSE None

\* TransactionSigned::mint
mint(tx) == IF is_deposit(tx) THEN tx.deposit[1].mint ELSE None

\* OptimismTxMeta::default()
OptimismTxMeta_default == [l1_block_info |-> None, l1_fee |-> None, l1_data_gas |-> None]

\* OptimismTxMeta::new
OptimismTxMeta_new(l1_block_info, l1_fee, l1_data_gas) ==
    [l1_block_info |-> l1_block_info, l1_fee |-> l1_fee, l1_data_gas |-> l1_data_gas]

\* An l1_fee_and_gas without the deposit test: the derivations run for deposits too.
l1_fee_and_gas_for_all(tx, block_timestamp, fee_result, gas_result) ==
    IF ~fee_result.ok
    THEN [ret |-> Err(L1BlockFeeError), calls |-> <<"l1_tx_data_fee">>]
    ELSE IF ~gas_result.ok
    THEN [ret |-> Err(L1BlockGasError), calls |-> <<"l1_tx_data_fee", "l1_data_gas">>]
    ELSE [ret |-> Ok(<<Some(saturating_to_u128(fee_result.val)),
                       Some(saturating_to_u128(gas_result.val))>>),
          calls |-> <<"l1_tx_data_fee", "l1_data_gas">>]

\* An l1_fee_and_gas that maps the failure of l1_data_gas to the fee error too.
l1_fee_and_gas_one_error(tx, block_timestamp, fee_result, gas_result) ==
    IF ~is_deposit(tx)
    THEN IF ~fee_result.ok
         THEN [ret |-> Err(L1BlockFeeError), calls |-> <<"l1_tx_data_fee">>]
         ELSE IF ~gas_result.ok
         THEN [ret |-> Err(L1BlockFeeError), calls |-> <<"l1_tx_data_fee", "l1_data_gas">>]
         ELSE [ret |-> Ok(<<Some(saturating_to_u128(fee_result.val)),
                            Some(saturating_to_u128(gas_result.val))>>),
               calls |-> <<"l1_tx_data_fee", "l1_data_gas">>]
    ELSE [ret |-> Ok(<<None, None>>), calls |-> <<>>]

\* build_op_tx_meta, the block `let (l1_fee, l1_data_gas) = if !tx.is_deposit() ..`:
\* the pair, or the error `?` returns.  fee_result and gas_result are what
\* l1_tx_data_fee and l1_data_gas return for the arguments they are given if they
\* are called; calls lists the derivations that were called, in order.
l1_fee_and_gas(tx, block_timestamp, fee_result, gas_result) ==
    IF ~is_deposit(tx)
    THEN IF ~fee_result.ok
         THEN [ret |-> Err(L1BlockFeeError), calls |-> <<"l1_tx_data_fee">>]
         ELSE IF ~gas_result.ok
         THEN [ret |-> Err(L1BlockGasError), calls |-> <<"l1_tx_data_fee", "l1_data_gas">>]
         ELSE [ret |-> Ok(<<Some(saturating_to_u128(fee_result.val)),
                            Some(saturating_to_u128(gas_result.val))>>),
               calls |-> <<"l1_tx_data_fee", "l1_data_gas">>]
    ELSE [ret |-> Ok(<<None, None>>), calls |-> <<>>]

\* A build_op_tx_meta that goes on without L1 block info and returns early for
\* deposits only.
build_op_tx_meta_no_early_return(tx, l1_block_info, block_timestamp, fee_result, gas_result) ==
    IF is_deposit(tx)
    THEN [ret |-> Ok(OptimismTxMeta_default), calls |-> <<>>]
    ELSE LET pair == l1_fee_and_gas(tx, block_timestamp, fee_result, gas_result)
         IN IF ~pair.ret.ok THEN pair
            ELSE [ret |-> Ok(OptimismTxMeta_new(l1_block_info, pair.ret.val[1],
                                                pair.ret.val[2])),
                  calls |-> pair.calls]

\* build_op_tx_meta
build_op_tx_meta(tx, l1_block_info, block_timestamp, fee_result, gas_result) ==
    IF l1_block_info = None
    THEN [ret |-> Ok(OptimismTxMeta_default), calls |-> <<>>]
    ELSE LET pair == l1_fee_and_gas(tx, block_timestamp, fee_result, gas_result)
         IN IF ~pair.ret.ok THEN pair
            ELSE [ret |-> Ok(OptimismTxMeta_new(Some(l1_block_info[1]), pair.ret.val[1],
                                                pair.ret.val[2])),
                  calls |-> pair.calls]

\* Eth::fill of the base variant: the standard response, no extension field.
EthFill(tx, tx_info) ==
    [hash |-> tx.signed.hash, from |-> tx.signer, tx_type |-> tx.signed.tx_type,
     block_hash |-> tx_info.block_hash, block_number |-> tx_info.block_number,
     transaction_index |-> tx_info.index, other |-> EmptyMap]

\* A fill that sets is_system_tx for every transaction (Some in place of then_some).
fill_always_some(tx, tx_info) ==
    [EthFill(tx, tx_info) EXCEPT !.other =
        [source_hash |-> source_hash(tx.signed),
         mint |-> mint(tx.signed),
         is_system_tx |-> Some(is_system_transaction(tx.signed))]]

\* OpTxBuilder::fill
fill(tx, tx_info) ==
    LET signed_tx == tx.signed
        resp == EthFill(tx, tx_info)
    IN [resp EXCEPT !.other =
            [source_hash |-> source_hash(signed_tx),
             mint |-> mint(signed_tx),
             is_system_tx |-> IF is_deposit(signed_tx)
                              THEN Some(is_system_transaction(signed_tx))
                              ELSE None]]

TransactionInfos ==
    {[block_hash |-> None, block_number |-> None, index |-> None],
     [block_hash |-> Some("b7"), block_number |-> Some(7), index |-> Some(0)]}

L1BlockInfos == {None, Some("l1-block-100"), Some("l1-block-101")}

OpInputs ==
    [tx : OpTxs, signer : {AddrA}, tx_info : TransactionInfos,
     l1_block_info : L1BlockInfos, block_timestamp : {0, 1000},
     fee_result : DerivationResults, gas_result : DerivationResults]

InitOp ==
    /\ opIn \in OpInputs
    /\ opOut = IdleOpOut
    /\ pool = IdlePool
    /\ req = <<>>
    /\ snapshot = [pending |-> <<>>, queued |-> <<>>]
    /\ response = NoResponse

BuildOpTxMeta ==
    /\ opOut = IdleOpOut
    /\ LET r == build_op_tx_meta(opIn.tx, opIn.l1_block_info, opIn.block_timestamp,
                                 opIn.fee_result, opIn.gas_result)
       IN opOut' = [step |-> "build_op_tx_meta", ret |-> r.ret, calls |-> r.calls]
    /\ UNCHANGED <<pool, req, snapshot, response, opIn>>

Fill ==
    /\ opOut = IdleOpOut
    /\ opOut' = [step |-> "fill",
                 resp |-> fill([signed |-> opIn.tx, signer |-> opIn.signer], opIn.tx_info)]
    /\ UNCHANGED <<pool, req, snapshot, response, opIn>>

NextOp == BuildOpTxMeta \/ Fill

SpecOp == InitOp /\ [][NextOp]_vars

\* a < b for two values given by the positions of their one bits: the highest
\* position where they differ is a one bit of b.
BitsLess(a, b) == \E i \in b \ a : \A j \in a \ b : j < i

BitsMin(a, b) == IF BitsLess(b, a) THEN b ELSE a

Built == opOut.step = "build_op_tx_meta"

\* C4: with no L1 block info, build_op_tx_meta succeeds with a meta whose three
\* fields are all empty and calls neither derivation, for every transaction
\* (deposit or not), every timestamp and whatever the derivations would return.
C4_AbsentInfoEmptyMeta ==
    (Built /\ opIn.l1_block_info = None) =>
        /\ opOut.ret = Ok([l1_block_info |-> None, l1_fee |-> None, l1_data_gas |-> None])
        /\ opOut.calls = <<>>

\* No info, a transaction that is no deposit, both derivations would fail.
C4_Witness ==
    /\ Built
    /\ opIn.l1_block_info = None
    /\ ~is_deposit(opIn.tx)
    /\ opIn.block_timestamp = 1000
    /\ ~opIn.fee_result.ok /\ ~opIn.gas_result.ok
    /\ opOut.ret.ok

\* C5: for a deposit build_op_tx_meta always succeeds with l1_fee and l1_data_gas
\* empty and calls no derivation, even when the derivations would fail; the meta's
\* l1_block_info is the one supplied (empty when none was supplied).
C5_DepositNoFee ==
    (Built /\ opIn.tx.tx_type = "deposit") =>
        /\ opOut.ret.ok
        /\ opOut.ret.val.l1_fee = None
        /\ opOut.ret.val.l1_data_gas = None
        /\ opOut.ret.val.l1_block_info = opIn.l1_block_info
        /\ opOut.calls = <<>>

\* A deposit with info supplied and both derivations failing if called.
C5_Witness ==
    /\ Built
    /\ opIn.tx.tx_type = "deposit"
    /\ opIn.l1_block_info = Some("l1-block-100")
    /\ ~opIn.fee_result.ok /\ ~opIn.gas_result.ok
    /\ opOut.ret = Ok([l1_block_info |-> Some("l1-block-100"), l1_fee |-> None,
                       l1_data_gas |-> None])

\* C6: for a transaction that is no deposit, with L1 block info supplied: when the
\* fee derivation fails the result is the fee error; when the fee derivation
\* succeeds and the gas derivation (called next) fails the result is the gas error;
\* the two errors differ; no failure yields a successful meta; and in every
\* successful result of build_op_tx_meta l1_fee is present iff l1_data_gas is.
C6_DistinctErrors ==
    /\ L1BlockFeeError # L1BlockGasError
    /\ (Built /\ opIn.tx.tx_type # "deposit" /\ opIn.l1_block_info # None) =>
          /\ ~opIn.fee_result.ok => opOut.ret = Err(L1BlockFeeError)
          /\ (opIn.fee_result.ok /\ ~opIn.gas_result.ok) => opOut.ret = Err(L1BlockGasError)
          /\ opOut.ret.ok => (opIn.fee_result.ok /\ opIn.gas_result.ok)
          /\ opOut.ret.ok => (opOut.ret.val.l1_fee # None /\ opOut.ret.val.l1_data_gas # None)
    /\ (Built /\ opOut.ret.ok) =>
          (opOut.ret.val.l1_fee = None <=> opOut.ret.val.l1_data_gas = None)

\* The fee derivation succeeds, the gas derivation fails.
C6_Witness ==
    /\ Built
    /\ opIn.tx.tx_type = "eip1559"
    /\ opIn.l1_block_info # None
    /\ opIn.fee_result.ok /\ ~opIn.gas_result.ok
    /\ opOut.ret = Err(L1BlockGasError)
    /\ opOut.calls = <<"l1_tx_data_fee", "l1_data_gas">>

\* C7: the filled response has is_system_tx = Some(b) exactly for deposits, b being
\* the deposit's system-transaction flag; for every other transaction it is absent;
\* every field but the extension slot is the one the base fill produced.
C7_IsSystemTxOnlyForDeposits ==
    opOut.step = "fill" =>
        LET base == EthFill([signed |-> opIn.tx, signer |-> opIn.signer], opIn.tx_info)
            isSys == opOut.resp.other.is_system_tx
        IN /\ opIn.tx.tx_type = "deposit" =>
                  isSys = Some(opIn.tx.deposit[1].is_system_transaction)
           /\ opIn.tx.tx_type # "deposit" => isSys = None
           /\ isSys # None <=> opIn.tx.tx_type = "deposit"
           /\ DOMAIN opOut.resp = DOMAIN base
           /\ \A f \in DOMAIN base \ {"other"} : opOut.resp[f] = base[f]

\* A deposit that is no system transaction: Some(false), not absent.
C7_Witness ==
    /\ opOut.step = "fill"
    /\ opIn.tx.tx_type = "deposit"
    /\ opOut.resp.other.is_system_tx = Some(FALSE)
    /\ opOut.resp.hash = "t4"

\* C8: for a transaction that is no deposit, with info supplied and both
\* derivations succeeding, the result is the meta with the info supplied,
\* l1_fee = Some(min(fee, 2^128 - 1)) and l1_data_gas = Some(min(gas, 2^128 - 1)).
C8_SaturatedFeeAndGas ==
    (/\ Built
     /\ opIn.tx.tx_type # "deposit"
     /\ opIn.l1_block_info # None
     /\ opIn.fee_result.ok
     /\ opIn.gas_result.ok) =>
        opOut.ret = Ok([l1_block_info |-> opIn.l1_block_info,
                        l1_fee |-> Some(BitsMin(opIn.fee_result.val, 0..127)),
                        l1_data_gas |-> Some(BitsMin(opIn.gas_result.val, 0..127))])

\* The fee is 2^128 + 1 (clamped, where wrapping would give 1), the gas 2^127.
C8_Witness ==
    /\ Built
    /\ opIn.tx.tx_type = "legacy"
    /\ opIn.l1_block_info = Some("l1-block-101")
    /\ opIn.fee_result = Ok({0, 128})
    /\ opIn.gas_result = Ok({127})
    /\ opOut.ret.ok
    /\ opOut.ret.val.l1_fee = Some(0..127)
    /\ opOut.ret.val.l1_data_gas = Some({127})

(***************************************************************************)
(* Spec: the handlers served concurrently with mutations of the pool.      *)
(* pool is the pool's current partition; all_transactions() returns both   *)
(* partitions of one instant.  A handler is two steps, the call of         *)
(* all_transactions() and the scan that builds the response, and the pool  *)
(* may change between them.  req[r].all is the handler's local variable,   *)
(* req[r].calls counts the request's calls of all_transactions().          *)
(***************************************************************************)
MaxPool == 2

Requests == {"r1", "r2"}

\* The addresses txpool_contentFrom is asked about in Spec.
QueriedSenders == {AddrA, AddrC}

SenderId(a) == CASE a = AddrA -> 0 [] a = AddrB -> 1 [] OTHER -> 2

\* Order of the pool's transaction ids: by sender id, then by nonce.
TxIdLess(t, u) ==
    \/ SenderId(t.sender) < SenderId(u.sender)
    \/ SenderId(t.sender) = SenderId(u.sender) /\ t.nonce < u.nonce

RECURSIVE InIdOrder(_)
InIdOrder(S) ==
    IF S = {} THEN <<>>
    ELSE LET first == CHOOSE t \in S : \A u \in S \ {t} : TxIdLess(t, u)
         IN <<first>> \o InIdOrder(S \ {first})

\* TransactionPool::all_transactions
all_transactions(p) == [pending |-> InIdOrder(p.pending), queued |-> InIdOrder(p.queued)]

Idle == [pc |-> "idle"]

Init ==
    /\ pool = [pending |-> {}, queued |-> {}]
    /\ req = [r \in Requests |-> Idle]
    /\ snapshot = [pending |-> <<>>, queued |-> <<>>]
    /\ response = NoResponse
    /\ opIn = IdleOpIn
    /\ opOut = IdleOpOut

\* The transactions with no nonce gap (the next nonce of both senders is 3): only
\* these can be pending; TxA10 is blocked behind the missing nonces and stays queued.
Includable == {TxA3, TxB3}

\* The pool admits a transaction into one of its sub-pools.
AddTransaction(t, sub) ==
    /\ t \notin pool.pending \cup pool.queued
    /\ sub = "pending" => t \in Includable
    /\ Cardinality(pool.pending \cup pool.queued) < MaxPool
    /\ pool' = [pool EXCEPT ![sub] = @ \cup {t}]
    /\ UNCHANGED <<req, snapshot, response, opIn, opOut>>

\* The pool drops a transaction (mined, evicted or replaced).
RemoveTransaction(t) ==
    /\ t \in pool.pending \cup pool.queued
    /\ pool' = [pending |-> pool.pending \ {t}, queued |-> pool.queued \ {t}]
    /\ UNCHANGED <<req, snapshot, response, opIn, opOut>>

\* A queued transaction becomes pending.
Promote(t) ==
    /\ t \in pool.queued
    /\ t \in Includable
    /\ pool' = [pending |-> pool.pending \cup {t}, queued |-> pool.queued \ {t}]
    /\ UNCHANGED <<req, snapshot, response, opIn, opOut>>

\* A pending transaction becomes queued.
Demote(t) ==
    /\ t \in pool.pending
    /\ pool' = [pending |-> pool.pending \ {t}, queued |-> pool.queued \cup {t}]
    /\ UNCHANGED <<req, snapshot, response, opIn, opOut>>

\* Request r enters a handler, which calls self.pool.all_transactions().
Acquire(r, method, from) ==
    /\ req[r].pc = "idle"
    /\ req' = [req EXCEPT ![r] =
                  [pc |-> "scan", method |-> method, from |-> from,
                   all |-> all_transactions(pool), calls |-> 1]]
    /\ UNCHANGED <<pool, snapshot, response, opIn, opOut>>

\* Request r's handler returns ret, after calls calls of all_transactions().
Return(r, ret, calls) ==
    /\ req' = [req EXCEPT ![r] =
                  [pc |-> "done", method |-> req[r].method, from |-> req[r].from,
                   all |-> req[r].all, calls |-> calls, ret |-> ret]]
    /\ UNCHANGED <<pool, snapshot, response, opIn, opOut>>

Scanning(r, methods) == req[r].pc = "scan" /\ req[r].method \in methods

\* txpool_status: let all = self.pool.all_transactions()
status_call(r) == Acquire(r, "txpool_status", None)

\* txpool_status: Ok(TxpoolStatus { .. }) from all
status_scan(r) ==
    /\ Scanning(r, {"txpool_status"})
    /\ Return(r, txpool_status(req[r].all), req[r].calls)

\* txpool_inspect: let AllPoolTransactions { pending, queued } = ..
inspect_call(r) == Acquire(r, "txpool_inspect", None)

\* txpool_inspect: the two folds over pending and queued
inspect_scan(r) ==
    /\ Scanning(r, {"txpool_inspect"})
    /\ Return(r, txpool_inspect(req[r].all), req[r].calls)

\* TxPoolApi::content, called by txpool_content and txpool_content_from:
\* let AllPoolTransactions { pending, queued } = self.pool.all_transactions()
content_call(r) ==
    \/ Acquire(r, "txpool_content", None)
    \/ \E from \in QueriedSenders : Acquire(r, "txpool_contentFrom", Some(from))

\* A content that scans queued from a second call of all_transactions().
content_scan_two_snapshots(r) ==
    /\ Scanning(r, {"txpool_content", "txpool_contentFrom"})
    /\ LET second == all_transactions(pool)
           mixed == [pending |-> req[r].all.pending, queued |-> second.queued]
       IN Return(r,
                 IF req[r].method = "txpool_content"
                 THEN txpool_content(mixed)
                 ELSE txpool_content_from(mixed, req[r].from[1]),
                 req[r].calls + 1)

\* TxPoolApi::content: the two loops over pending and queued, then the return of
\* txpool_content or txpool_content_from
content_scan(r) ==
    /\ Scanning(r, {"txpool_content", "txpool_contentFrom"})
    /\ Return(r,
              IF req[r].method = "txpool_content"
              THEN txpool_content(req[r].all)
              ELSE txpool_content_from(req[r].all, req[r].from[1]),
              req[r].calls)

\* The response of request r has been sent.
Finish(r) ==
    /\ req[r].pc = "done"
    /\ req' = [req EXCEPT ![r] = Idle]
    /\ UNCHANGED <<pool, snapshot, response, opIn, opOut>>

Next ==
    \/ \E t \in PoolTxs, sub \in Partitions : AddTransaction(t, sub)
    \/ \E t \in PoolTxs : RemoveTransaction(t)
    \/ \E t \in PoolTxs : Promote(t)
    \/ \E t \in PoolTxs : Demote(t)
    \/ \E r \in Requests : status_call(r)
    \/ \E r \in Requests : status_scan(r)
    \/ \E r \in Requests : inspect_call(r)
    \/ \E r \in Requests : inspect_scan(r)
    \/ \E r \in Requests : content_call(r)
    \/ \E r \in Requests : content_scan(r)
    \/ \E r \in Requests : Finish(r)

Spec == Init /\ [][Next]_vars

\* What the method of a finished request answers from the snapshot s.
Answer(method, from, s) ==
    CASE method = "txpool_status" ->
            Ok([pending |-> Len(s.pending), queued |-> Len(s.queued)])
      [] method = "txpool_inspect" -> txpool_inspect(s)
      [] method = "txpool_content" -> txpool_content(s)
      [] method = "txpool_contentFrom" -> txpool_content_from(s, from[1])

C10_OneSnapshot ==
    \A r \in Requests :
        req[r].pc = "done" =>
            /\ req[r].calls = 1
            /\ req[r].ret = Answer(req[r].method, req[r].from, req[r].all)

C10_PoolUntouched == \A r \in Requests : req'[r] # req[r] => pool' = pool

\* C10: with the pool mutated concurrently and several requests interleaved, every
\* finished request of status, inspect, content and contentFrom has called
\* all_transactions() exactly once, its whole response (pending and queued parts
\* alike) is the method's answer from the snapshot that call returned, and no step
\* of a request changes the pool.
C10_SingleSnapshotPerRequest == [](C10_OneSnapshot) /\ [][C10_PoolUntouched]_vars

\* A content request finished from a snapshot with both parts non-empty that is no
\* longer the pool's partition, while another request scans a different snapshot.
C10_Witness ==
    /\ req["r1"].pc = "done"
    /\ req["r1"].method = "txpool_content"
    /\ req["r1"].all.pending # <<>>
    /\ req["r1"].all.queued # <<>>
    /\ all_transactions(pool) # req["r1"].all
    /\ req["r2"].pc = "scan"
    /\ req["r2"].all # req["r1"].all
    /\ req["r2"].all # all_transactions(pool)

====
